---------------------------- MODULE Spec2Model ----------------------------
(***************************************************************************)
(* A model of the ARMv4T interpreter of src/src/cpu.h: the execution loop  *)
(* cpu_run, the ARM handler cpu_process_arm_instruction and the Thumb      *)
(* handler cpu_process_thumb_instruction, over the flat byte buffer        *)
(* cpu->memory (src/src/memory.h).                                         *)
(*                                                                         *)
(* A uint32_t is the set of the positions of its 1 bits (a subset of       *)
(* 0..31), so that every 32-bit value is representable and the bitwise     *)
(* operators of the C code are set operations.  Arithmetic is modulo 2^32  *)
(* (a ripple carry over the 32 positions).  Bytes and decoded instruction  *)
(* fields are small naturals.                                              *)
(***************************************************************************)
EXTENDS Integers, Sequences, FiniteSets, TLC

VARIABLES registers, memory, status, trace

vars == <<registers, memory, status, trace>>

-----------------------------------------------------------------------------
(* uint32_t                                                                *)

Bits32 == 0..31

Zero32 == {}

Ones32 == 0..31

\* The word of a natural below 2^31.
FromNat(n) == {i \in 0..30 : (n \div (2^i)) % 2 = 1}

\* The natural of a word with bit 31 clear.
RECURSIVE ToNat(_)
ToNat(w) ==
    IF w = {} THEN 0
    ELSE LET i == CHOOSE x \in w : TRUE IN (2^i) + ToNat(w \ {i})

\* A word written as its hexadecimal digits, most significant first.
Hex(ds) ==
    {4 * (Len(ds) - k) + j : k \in 1..Len(ds), j \in 0..3} \cap
    {b \in Bits32 : LET k == Len(ds) - (b \div 4)
                    IN k >= 1 /\ (ds[k] \div (2^(b % 4))) % 2 = 1}

Bit(w, i) == IF i \in w THEN 1 ELSE 0

\* (w >> lo) & (2^n - 1), as a natural (n <= 30).
Field(w, lo, n) == ToNat({i - lo : i \in w \cap (lo..(lo + n - 1))})

And(a, b) == a \cap b

Or(a, b) == a \cup b

Xor(a, b) == (a \ b) \cup (b \ a)

Not(a) == Bits32 \ a

\* w << n and w >> n for a shift count 0 <= n <= 31.
Shl(w, n) == {i + n : i \in w} \cap Bits32

Shr(w, n) == {i - n : i \in w} \cap Bits32

RECURSIVE AddFrom(_, _, _, _)
AddFrom(a, b, i, c) ==
    IF i = 32 THEN {}
    ELSE LET s == Bit(a, i) + Bit(b, i) + c
         IN (IF s % 2 = 1 THEN {i} ELSE {}) \cup AddFrom(a, b, i + 1, s \div 2)

\* a + b and a - b modulo 2^32.
Add(a, b) == AddFrom(a, b, 0, 0)

Sub(a, b) == AddFrom(a, Not(b), 0, 1)

Neg(a) == Sub(Zero32, a)

MaxBit(w) == CHOOSE i \in w : \A j \in w : j <= i

\* a >= b and a < b as unsigned 32-bit values.
Uge(a, b) == LET d == Xor(a, b) IN d = {} \/ MaxBit(d) \in a

Ult(a, b) == ~Uge(a, b)

\* A C truth value (0 or 1) as a word.
Bool32(p) == IF p THEN {0} ELSE {}


-----------------------------------------------------------------------------
(* What the C standard leaves open.  Each step draws one ub record:        *)
(*   target  the build: on "x86" a shift count outside 0..31 is taken      *)
(*           modulo 32 and plain char is signed; on "arm" such a shift     *)
(*           yields 0 and plain char is unsigned;                          *)
(*   word    the value an out-of-bounds read happens to find;              *)
(*   byte    the content of a byte of the malloc'ed buffer that nothing    *)
(*           has written yet (it keeps that value once it has been read);  *)
(*   fault   whether an access outside the buffer ends the process.        *)

UBChoices ==
    [target : {"x86", "arm"}, word : {Zero32, Ones32}, byte : {0, 255},
     fault : BOOLEAN]

\* A shift count held in a uint32_t, as an integer: the count itself below
\* 64, and above that an integer of at least 64 with its residue modulo 32.
CountOf(c) ==
    IF c \subseteq (0..5) THEN ToNat(c) ELSE 64 + ToNat(c \cap (0..4))

\* w << n and w >> n in C, for any int count n.
ShlUB(w, n, ub) ==
    IF n \in 0..31 THEN Shl(w, n)
    ELSE IF ub.target = "x86" THEN Shl(w, n % 32) ELSE Zero32

ShrUB(w, n, ub) ==
    IF n \in 0..31 THEN Shr(w, n)
    ELSE IF ub.target = "x86" THEN Shr(w, n % 32) ELSE Zero32

-----------------------------------------------------------------------------
(* bits.h                                                                  *)

rotl32(n, c) ==
    LET k == c % 32 IN Or(Shl(n, k), Shr(n, (32 - k) % 32))

rotr32(n, c) ==
    LET k == c % 32 IN Or(Shr(n, k), Shl(n, (32 - k) % 32))

sign_extend(x, b, ub) ==
    LET m == ShlUB({0}, b - 1, ub)
        x1 == And(x, Sub(ShlUB({0}, b, ub), {0}))
    IN Sub(Xor(x1, m), m)

-----------------------------------------------------------------------------
(* cpu_registers_t: r[0..12], sp, lr, pc, cpsr, spsr are eighteen          *)
(* consecutive uint32_t, and the code reaches sp, lr and pc as r[13],      *)
(* r[14] and r[15].                                                        *)

SP == 13

LR == 14

PC == 15

CPSR == 16

SPSR == 17

RegIndex == 0..17

ARM_MODE_USER == 16

ARM_MODE_FIQ == 17

ARM_MODE_IRQ == 18

ARM_MODE_SUPERVISOR == 19

ARM_MODE_ABORT == 23

ARM_MODE_UNDEFINED == 27

ARM_MODE_SYSTEM == 31

\* cpu->registers.r[index] for an index the code takes from a register
\* value: past spsr the read leaves the structure.
RegRead(regs, index, ub) ==
    IF index \in RegIndex THEN regs[index] ELSE ub.word

\* A mode field one bit too wide: it takes the state bit (bit 5) with it.
ModeWithStateBit(cpsr) == Field(cpsr, 0, 6)

get_cpsr_mode(cpsr) == Field(cpsr, 0, 5)

get_cpsr_negative(cpsr) == Bit(cpsr, 31)

get_cpsr_zero(cpsr) == Bit(cpsr, 30)

get_cpsr_carry(cpsr) == Bit(cpsr, 29)

get_cpsr_overflow(cpsr) == Bit(cpsr, 28)

\* registers->cpsr = (registers->cpsr & ~(1 << bit)) | ((value & 0x1) << bit)
SetCpsrBit(regs, bit, value) ==
    [regs EXCEPT ![CPSR] = (@ \ {bit}) \cup Shl(And(value, {0}), bit)]

set_cpsr_negative(regs, value) == SetCpsrBit(regs, 31, value)

set_cpsr_zero(regs, value) == SetCpsrBit(regs, 30, value)

set_cpsr_carry(regs, value) == SetCpsrBit(regs, 29, value)

set_cpsr_overflow(regs, value) == SetCpsrBit(regs, 28, value)

\* cpu_check_condition with HI decided by the carry flag alone.
CheckConditionCarryOnly(cpsr, instruction) ==
    LET cond == Field(instruction, 28, 4)
        n == get_cpsr_negative(cpsr)
        z == get_cpsr_zero(cpsr)
        c == get_cpsr_carry(cpsr)
        v == get_cpsr_overflow(cpsr)
    IN CASE cond = 0 -> z = 1
         [] cond = 1 -> z = 0
         [] cond = 2 -> c = 1
         [] cond = 3 -> c = 0
         [] cond = 4 -> n = 1
         [] cond = 5 -> n = 0
         [] cond = 6 -> v = 1
         [] cond = 7 -> v = 0
         [] cond = 8 -> c = 1
         [] cond = 9 -> c = 0 \/ z = 1
         [] cond = 10 -> n = v
         [] cond = 11 -> n # v
         [] cond = 12 -> z = 0 /\ n = v
         [] cond = 13 -> z = 1 \/ n # v
         [] cond = 14 -> TRUE
         [] OTHER -> FALSE

cpu_check_condition(cpsr, instruction) ==
    LET cond == Field(instruction, 28, 4)
        n == get_cpsr_negative(cpsr)
        z == get_cpsr_zero(cpsr)
        c == get_cpsr_carry(cpsr)
        v == get_cpsr_overflow(cpsr)
    IN CASE cond = 0 -> z = 1
         [] cond = 1 -> z = 0
         [] cond = 2 -> c = 1
         [] cond = 3 -> c = 0
         [] cond = 4 -> n = 1
         [] cond = 5 -> n = 0
         [] cond = 6 -> v = 1
         [] cond = 7 -> v = 0
         [] cond = 8 -> c = 1 /\ z = 0
         [] cond = 9 -> c = 0 \/ z = 1
         [] cond = 10 -> n = v
         [] cond = 11 -> n # v
         [] cond = 12 -> z = 0 /\ n = v
         [] cond = 13 -> z = 1 \/ n # v
         [] cond = 14 -> TRUE
         [] OTHER -> FALSE

-----------------------------------------------------------------------------
(* cpu->memory: one malloc'ed buffer of sizeof(memory_t) bytes, indexed    *)
(* by the guest address itself.  The model keeps the bytes that the image  *)
(* or a store has set; any other byte of the buffer still holds what       *)
(* malloc or the rest of the image file left there.                        *)

SizeofMemory == 101141502

\* Are the n bytes at address a inside the buffer?
InBounds(a, n) ==
    a \cap (27..31) = {} /\ ToNat(a) + n <= SizeofMemory

ByteAt(mem, k, ub) == IF k \in DOMAIN mem THEN mem[k] ELSE ub.byte

ByteWord(b) == {i \in 0..7 : (b \div (2^i)) % 2 = 1}

\* The little-endian value of the n bytes at a (n = 1, 2 or 4).
LoadValue(c, a, n, ub) ==
    IF InBounds(a, n)
    THEN LET k == ToNat(a)
         IN UNION {Shl(ByteWord(ByteAt(c.memory, k + j, ub)), 8 * j) : j \in 0..(n - 1)}
    ELSE And(ub.word, 0..(8 * n - 1))

\* The machine after that read: the bytes read are now known, or the
\* process has faulted.
LoadState(c, a, n, ub) ==
    IF InBounds(a, n)
    THEN LET k == ToNat(a)
             touched == k..(k + n - 1)
         IN [c EXCEPT !.memory =
                [x \in (DOMAIN c.memory) \cup touched |-> ByteAt(c.memory, x, ub)]]
    ELSE [c EXCEPT !.fault = ub.fault \/ @]

\* A store that writes only the lowest byte of the value.
StoreLowestByte(c, a, n, value, ub) ==
    IF InBounds(a, n)
    THEN LET k == ToNat(a)
         IN [c EXCEPT !.memory =
                [x \in (DOMAIN c.memory) \cup {k} |->
                    IF x = k THEN Field(value, 0, 8) ELSE c.memory[x]]]
    ELSE [c EXCEPT !.fault = ub.fault \/ @]

\* The machine after storing the low n bytes of value at a.
Store(c, a, n, value, ub) ==
    IF InBounds(a, n)
    THEN LET k == ToNat(a)
             touched == k..(k + n - 1)
         IN [c EXCEPT !.memory =
                [x \in (DOMAIN c.memory) \cup touched |->
                    IF x \in touched THEN Field(value, 8 * (x - k), 8)
                    ELSE c.memory[x]]]
    ELSE [c EXCEPT !.fault = ub.fault \/ @]

\* (uint32_t)cpu->memory[address]: a plain char widened to 32 bits.
CharValue(c, a, ub) ==
    LET b == LoadValue(c, a, 1, ub)
    IN IF ub.target = "x86" /\ 7 \in b THEN Or(b, 8..31) ELSE b

\* (int32_t)*(int16_t*)&cpu->memory[address]
Int16Value(c, a, ub) ==
    LET h == LoadValue(c, a, 2, ub)
    IN IF 15 \in h THEN Or(h, 16..31) ELSE h

SetReg(c, index, value) == [c EXCEPT !.registers[index] = value]

SetRegs(c, regs) == [c EXCEPT !.registers = regs]

-----------------------------------------------------------------------------
(* cpu_process_arm_instruction: operand 2                                  *)

\* The register operand of a data-processing or single-data-transfer
\* instruction: [src2, carry], carry being the value the data-processing
\* code hands to set_cpsr_carry.  shift_value is the low byte of the
\* CONTENTS of Rm, and the code then indexes r[] with it.
arm_shift(regs, instruction, ub) ==
    LET shift_value == Field(regs[Field(instruction, 0, 4)], 0, 8)
        shift_type == Field(instruction, 5, 2)
        shift_amount ==
            IF Bit(instruction, 4) = 1
            THEN Field(regs[Field(instruction, 8, 4)], 0, 8)
            ELSE Field(instruction, 7, 5)
        v == RegRead(regs, shift_value, ub)
    IN CASE shift_type = 0 ->
              IF shift_amount > 32
              THEN [src2 |-> Zero32, carry |-> Zero32]
              ELSE [src2 |-> ShlUB(v, shift_amount, ub),
                    carry |-> And(ShrUB(v, 32 - shift_amount, ub), {0})]
         [] shift_type = 1 ->
              IF shift_amount > 32
              THEN [src2 |-> Zero32, carry |-> Zero32]
              ELSE [src2 |-> ShrUB(v, shift_amount, ub),
                    carry |-> And(ShrUB(v, shift_amount - 1, ub), {0})]
         [] shift_type = 2 ->
              IF shift_amount >= 32
              THEN [src2 |-> sign_extend(Shr(v, 31), 32 - shift_amount, ub),
                    carry |-> And(Shr(v, 31), {0})]
              ELSE [src2 |-> sign_extend(Shr(v, shift_amount), 32 - shift_amount, ub),
                    carry |-> And(ShrUB(v, shift_amount - 1, ub), {0})]
         [] OTHER ->
              IF shift_amount = 0
              THEN [src2 |-> Or(Shr(v, 1), Shl(FromNat(get_cpsr_carry(regs[CPSR])), 31)),
                    carry |-> And(v, {0})]
              ELSE [src2 |-> rotl32(v, shift_amount),
                    carry |-> And(ShrUB(v, shift_amount - 1, ub), {0})]

\* Operand 2 of a data-processing instruction: [regs, src2], regs with the
\* carry flag the shifter has already written.
arm_operand2(regs, instruction, ub) ==
    LET i == Bit(instruction, 25)
        s == Bit(instruction, 20)
        rd == Field(instruction, 12, 4)
        sh == arm_shift(regs, instruction, ub)
    IN IF i = 0
       THEN [regs |-> IF s = 1 /\ rd # 15 THEN set_cpsr_carry(regs, sh.carry) ELSE regs,
             src2 |-> sh.src2]
       ELSE [regs |-> regs,
             src2 |-> rotr32(And(instruction, 0..7), Field(instruction, 8, 4) * 2)]

\* The flag updates that follow the write of r[rd]; each reads the
\* register file as the write left it.
FlagsZN(regs, result) ==
    set_cpsr_negative(set_cpsr_zero(regs, Bool32(result = Zero32)),
                      Bool32(Ult(result, Zero32)))

\* set_cpsr_carry(first >= second); set_cpsr_overflow((first ^ second) &
\* (first ^ result) & 0x80000000)
FlagsCV(regs, first, second, result) ==
    set_cpsr_overflow(
        set_cpsr_carry(regs, Bool32(Uge(first, second))),
        And(And(Xor(first, second), Xor(first, result)), {31}))

\* The ALU switch on opcode, from the register file regs0 that operand 2
\* left and the operand src2.
arm_alu(regs0, instruction, src2) ==
    LET opcode == Field(instruction, 21, 4)
        s == Bit(instruction, 20)
        rn == Field(instruction, 16, 4)
        rd == Field(instruction, 12, 4)
        a == regs0[rn]
        cin == FromNat(get_cpsr_carry(regs0[CPSR]))
        ncin == FromNat(1 - get_cpsr_carry(regs0[CPSR]))
        \* r[rd] = value; then the logical flags
        Logical(value) ==
            LET regs1 == [regs0 EXCEPT ![rd] = value]
            IN FlagsZN(regs1, regs1[rd])
        \* r[rd] = value; then the arithmetic flags of r[rn] against src2
        Arith(value) ==
            LET regs1 == [regs0 EXCEPT ![rd] = value]
            IN FlagsCV(FlagsZN(regs1, regs1[rd]), regs1[rn], src2, regs1[rd])
        \* the same with the operands swapped (RSB, RSC)
        ArithRev(value) ==
            LET regs1 == [regs0 EXCEPT ![rd] = value]
            IN FlagsCV(FlagsZN(regs1, regs1[rd]), src2, regs1[rn], regs1[rd])
        \* TST, TEQ, CMP, CMN: no register is written
        Test(value) == FlagsZN(regs0, value)
        Compare(value) == FlagsCV(FlagsZN(regs0, value), a, src2, value)
        pd == Bit(instruction, 22)
        rm == Field(instruction, 0, 4)
    IN CASE opcode = 0 -> Logical(And(a, src2))
         [] opcode = 1 -> Logical(Xor(a, src2))
         [] opcode = 2 -> Arith(Sub(a, src2))
         [] opcode = 3 -> ArithRev(Sub(src2, a))
         [] opcode = 4 -> Arith(Add(a, src2))
         [] opcode = 5 -> Arith(Add(Add(a, src2), cin))
         [] opcode = 6 -> Arith(Sub(Sub(a, src2), ncin))
         [] opcode = 7 -> ArithRev(Sub(Sub(src2, a), ncin))
         [] opcode = 8 -> Test(And(a, src2))
         [] opcode = 9 ->
              IF s = 0
              THEN IF pd = 0
                   THEN IF get_cpsr_mode(regs0[CPSR]) = ARM_MODE_USER
                        THEN [regs0 EXCEPT ![CPSR] =
                                 Or(And(@, 0..27), And(regs0[rm], 28..31))]
                        ELSE [regs0 EXCEPT ![CPSR] = regs0[rm]]
                   ELSE [regs0 EXCEPT ![SPSR] = regs0[rm]]
              ELSE Test(Xor(a, src2))
         [] opcode = 10 -> Compare(Sub(a, src2))
         [] opcode = 11 -> Compare(Add(a, src2))
         [] opcode = 12 -> Logical(Or(a, src2))
         [] opcode = 13 -> Logical(src2)
         [] opcode = 14 -> Logical(And(a, Not(src2)))
         [] OTHER -> Logical(Not(src2))

\* Data processing / PSR transfer (case 0x0 past the BX test).
arm_data_processing(c, instruction, ub) ==
    LET op2 == arm_operand2(c.registers, instruction, ub)
    IN SetRegs(c, arm_alu(op2.regs, instruction, op2.src2))

\* Branch and Exchange.
arm_bx(c, instruction) ==
    LET rn == Field(instruction, 0, 4)
        target == c.registers[rn]
    IN IF 0 \in target
       THEN SetRegs(c, [c.registers EXCEPT
                ![PC] = Sub(And(target, 1..31), FromNat(2)),
                ![CPSR] = @ \ {5}])
       ELSE SetRegs(c, [c.registers EXCEPT
                ![PC] = Sub(And(target, 2..31), FromNat(4)),
                ![CPSR] = @ \cup {5}])

\* r[rd] = *(uint32_t*)&cpu->memory[address]
arm_load_word(c, rd, address, ub) ==
    SetReg(LoadState(c, address, 4, ub), rd, LoadValue(c, address, 4, ub))

\* r[rd] = cpu->memory[address]
arm_load_byte(c, rd, address, ub) ==
    SetReg(LoadState(c, address, 1, ub), rd, CharValue(c, address, ub))

\* The address of a single data transfer: the base, 8 or 12 more when the
\* base is r15, and with pre-indexing the offset added or subtracted.
arm_transfer_address(regs, instruction, offset) ==
    LET p == Bit(instruction, 24)
        u == Bit(instruction, 23)
        l == Bit(instruction, 20)
        rn == Field(instruction, 16, 4)
        base ==
            IF rn = 15
            THEN Add(regs[rn], FromNat(IF l = 0 THEN 12 ELSE 8))
            ELSE regs[rn]
    IN IF p = 1
       THEN IF u = 1 THEN Add(base, offset) ELSE Sub(base, offset)
       ELSE base

\* The address written back to the base: post-indexing adds or subtracts
\* the offset first.
arm_writeback_address(instruction, address, offset) ==
    IF Bit(instruction, 24) = 1 THEN address
    ELSE IF Bit(instruction, 23) = 1 THEN Add(address, offset)
    ELSE Sub(address, offset)

\* The base writeback that ends a single data transfer.
arm_writeback(c, instruction, address, offset) ==
    IF Bit(instruction, 21) = 1 \/ Bit(instruction, 24) = 0
    THEN SetReg(c, Field(instruction, 16, 4),
                arm_writeback_address(instruction, address, offset))
    ELSE c

\* The load or store at address, then the writeback.
arm_transfer_at(c, instruction, address, offset, ub) ==
    LET b == Bit(instruction, 22)
        l == Bit(instruction, 20)
        rd == Field(instruction, 12, 4)
    IN arm_writeback(
           IF l = 1
           THEN IF b = 1
                THEN arm_load_byte(c, rd, address, ub)
                ELSE arm_load_word(c, rd, address, ub)
           ELSE Store(c, address, IF b = 1 THEN 1 ELSE 4, c.registers[rd], ub),
           instruction, address, offset)

\* Single Data Transfer (case 0x1), once the offset is known.
arm_transfer(c, instruction, offset, ub) ==
    arm_transfer_at(c, instruction,
                    arm_transfer_address(c.registers, instruction, offset),
                    offset, ub)

\* Single Data Transfer (case 0x1): the offset is the 12-bit immediate when
\* bit 25 is clear, and the shifted register when it is set.
arm_single_data_transfer(c, instruction, ub) ==
    arm_transfer(c, instruction,
                 IF Bit(instruction, 25) = 1
                 THEN arm_shift(c.registers, instruction, ub).src2
                 ELSE And(instruction, 0..11),
                 ub)

\* Branch / Branch with Link that adds the offset to pc without the 4
\* that makes up for the pipeline.
BranchWithoutPipeline(c, instruction, ub) ==
    LET l == Bit(instruction, 24)
        offset == Shl(And(instruction, 0..23), 2)
        signed_offset == sign_extend(offset, 26, ub)
        c1 == IF l = 1 THEN SetReg(c, LR, Add(c.registers[PC], FromNat(4))) ELSE c
    IN SetReg(c1, PC, Add(c1.registers[PC], signed_offset))

\* Branch / Branch with Link (case 0x2, bit 25 set).
arm_branch(c, instruction, ub) ==
    LET l == Bit(instruction, 24)
        offset == Shl(And(instruction, 0..23), 2)
        signed_offset == sign_extend(offset, 26, ub)
        c1 == IF l = 1 THEN SetReg(c, LR, Add(c.registers[PC], FromNat(4))) ELSE c
    IN SetReg(c1, PC, Add(c1.registers[PC], Add(signed_offset, FromNat(4))))

\* Block Data Transfer (case 0x2, bit 25 clear): the loop over the register
\* list from register i on, [c, address].
RECURSIVE arm_block_loop(_, _, _, _, _)
arm_block_loop(c, instruction, i, address, ub) ==
    IF i = 16 THEN [c |-> c, address |-> address]
    ELSE IF Bit(instruction, i) = 0
    THEN arm_block_loop(c, instruction, i + 1, address, ub)
    ELSE LET p == Bit(instruction, 24)
             u == Bit(instruction, 23)
             s == Bit(instruction, 22)
             l == Bit(instruction, 20)
             Move(a) == IF u = 1 THEN Add(a, FromNat(4)) ELSE Sub(a, FromNat(4))
             a1 == IF p = 1 THEN Move(address) ELSE address
             loaded == SetReg(LoadState(c, a1, 4, ub), i, LoadValue(c, a1, 4, ub))
             c1 == IF l = 1
                   THEN IF i = 15 /\ s = 1
                        THEN SetReg(loaded, CPSR, loaded.registers[SPSR])
                        ELSE loaded
                   ELSE Store(c, a1, 4, c.registers[i], ub)
             a2 == IF p = 0 THEN Move(a1) ELSE a1
         IN arm_block_loop(c1, instruction, i + 1, a2, ub)

arm_block_data_transfer(c, instruction, ub) ==
    LET p == Bit(instruction, 24)
        w == Bit(instruction, 21)
        rn == Field(instruction, 16, 4)
        done == arm_block_loop(c, instruction, 0, c.registers[rn], ub)
    IN IF w = 1 \/ p = 0 THEN SetReg(done.c, rn, done.address) ELSE done.c

\* The decoding of cpu_process_arm_instruction without its condition check:
\* every instruction is executed as if its condition were AL.
ProcessIgnoringCondition(c, instruction, ub) ==
    LET instruction_type == Field(instruction, 26, 2)
        i == Bit(instruction, 25)
    IN CASE instruction_type = 0 ->
              IF Field(instruction, 4, 24) = ToNat(Hex(<<1, 2, 15, 15, 15, 1>>))
              THEN arm_bx(c, instruction)
              ELSE IF i = 1 \/ Bit(instruction, 7) = 0
              THEN arm_data_processing(c, instruction, ub)
              ELSE c
         [] instruction_type = 1 -> arm_single_data_transfer(c, instruction, ub)
         [] instruction_type = 2 ->
              IF i = 1 THEN arm_branch(c, instruction, ub)
              ELSE arm_block_data_transfer(c, instruction, ub)
         [] OTHER -> [c EXCEPT !.ret = 0]

\* The machine after cpu_process_arm_instruction; its field ret is the
\* value the function returns.
cpu_process_arm_instruction(c, instruction, ub) ==
    LET instruction_type == Field(instruction, 26, 2)
        i == Bit(instruction, 25)
    IN IF ~cpu_check_condition(c.registers[CPSR], instruction) THEN c
       ELSE CASE instruction_type = 0 ->
                   IF Field(instruction, 4, 24) = ToNat(Hex(<<1, 2, 15, 15, 15, 1>>))
                   THEN arm_bx(c, instruction)
                   ELSE IF i = 1 \/ Bit(instruction, 7) = 0
                   THEN arm_data_processing(c, instruction, ub)
                   ELSE c
              [] instruction_type = 1 -> arm_single_data_transfer(c, instruction, ub)
              [] instruction_type = 2 ->
                   IF i = 1 THEN arm_branch(c, instruction, ub)
                   ELSE arm_block_data_transfer(c, instruction, ub)
              [] OTHER -> [c EXCEPT !.ret = 0]

-----------------------------------------------------------------------------
(* cpu_process_thumb_instruction                                           *)

RECURSIVE MulFrom(_, _, _)
MulFrom(a, b, i) ==
    IF i = 32 THEN Zero32
    ELSE Add(IF i \in b THEN Shl(a, i) ELSE Zero32, MulFrom(a, b, i + 1))

\* a * b modulo 2^32.
Mul(a, b) == MulFrom(a, b, 0)

\* The four flag writes of the Thumb compare forms, of r[rd] against value.
ThumbCompare(regs, first, second) ==
    set_cpsr_overflow(
        set_cpsr_carry(
            set_cpsr_negative(
                set_cpsr_zero(regs, Bool32(first = second)),
                Bool32(Ult(first, second))),
            Bool32(Uge(first, second))),
        And(And(Xor(first, second), Xor(first, Sub(first, second))), {31}))

\* The carry and overflow writes that follow "r[rd] op= value", reading
\* r[rd] as the operation left it.
ThumbCarryOverflow(regs, first, second) ==
    set_cpsr_overflow(
        set_cpsr_carry(regs, Bool32(Uge(first, second))),
        And(And(Xor(first, second), Xor(first, Sub(first, second))), {31}))

\* case 0b000: shift by immediate, add/subtract.  No break follows it.
thumb_group_000(c, instruction, ub) ==
    LET opcode == Field(instruction, 11, 2)
        offset5 == Field(instruction, 6, 5)
        rs == Field(instruction, 3, 3)
        rd == Field(instruction, 0, 3)
        regs == c.registers
        Shifted(value) ==
            LET regs1 == [regs EXCEPT ![rd] = value]
            IN SetRegs(c, FlagsZN(regs1, regs1[rd]))
        i == Bit(instruction, 10)
        op == Bit(instruction, 9)
        rn_or_offset3 == Field(instruction, 6, 3)
        operand == IF i = 0 THEN regs[rn_or_offset3] ELSE FromNat(rn_or_offset3)
        regs2 == [regs EXCEPT ![rd] =
                     IF op = 0 THEN Add(regs[rs], operand) ELSE Sub(regs[rs], operand)]
    IN CASE opcode = 0 -> Shifted(Shl(regs[rs], offset5))
         [] opcode = 1 -> Shifted(Shr(regs[rs], offset5))
         [] opcode = 2 -> Shifted(sign_extend(Shr(regs[rs], offset5), 32 - offset5, ub))
         [] OTHER ->
              SetRegs(c, FlagsCV(FlagsZN(regs2, regs2[rd]), regs2[rs], operand, regs2[rd]))

\* case 0b001: move/compare/add/subtract immediate.
thumb_group_001(c, instruction) ==
    LET opcode == Field(instruction, 11, 2)
        rd == Field(instruction, 8, 3)
        offset8 == And(instruction, 0..7)
        regs == c.registers
        Updated(value) ==
            LET regs1 == [regs EXCEPT ![rd] = value]
            IN ThumbCarryOverflow(FlagsZN(regs1, regs1[rd]), regs1[rd], offset8)
    IN CASE opcode = 0 ->
              LET regs1 == [regs EXCEPT ![rd] = offset8]
              IN SetRegs(c, FlagsZN(regs1, regs1[rd]))
         [] opcode = 1 -> SetRegs(c, ThumbCompare(regs, regs[rd], offset8))
         [] opcode = 2 -> SetRegs(c, Updated(Add(regs[rd], offset8)))
         [] OTHER -> SetRegs(c, Updated(Sub(regs[rd], offset8)))

\* ALU operations (case 0b010, bits 12..10 = 000).
thumb_alu(c, instruction, ub) ==
    LET opcode == Field(instruction, 6, 4)
        rs == Field(instruction, 3, 3)
        rd == Field(instruction, 0, 3)
        regs == c.registers
        cin == FromNat(get_cpsr_carry(regs[CPSR]))
        ncin == FromNat(1 - get_cpsr_carry(regs[CPSR]))
        count == CountOf(regs[rs])
        Logical(value) ==
            LET regs1 == [regs EXCEPT ![rd] = value]
            IN FlagsZN(regs1, regs1[rd])
        Arith(value) ==
            LET regs1 == [regs EXCEPT ![rd] = value]
            IN ThumbCarryOverflow(FlagsZN(regs1, regs1[rd]), regs1[rd], regs1[rs])
        negated == [regs EXCEPT ![rd] = Neg(regs[rs])]
        product == [regs EXCEPT ![rd] = Mul(regs[rd], regs[rs])]
    IN SetRegs(c,
        CASE opcode = 0 -> Logical(And(regs[rd], regs[rs]))
          [] opcode = 1 -> Logical(Xor(regs[rd], regs[rs]))
          [] opcode = 2 -> Logical(ShlUB(regs[rd], count, ub))
          [] opcode = 3 -> Logical(ShrUB(regs[rd], count, ub))
          [] opcode = 4 ->
               Logical(sign_extend(ShrUB(regs[rd], count, ub), 32 - count, ub))
          [] opcode = 5 -> Arith(Add(regs[rd], Add(regs[rs], cin)))
          [] opcode = 6 -> Arith(Sub(regs[rd], Sub(regs[rs], ncin)))
          [] opcode = 7 -> Logical(rotl32(regs[rd], count))
          [] opcode = 8 -> FlagsZN(regs, And(regs[rd], regs[rs]))
          [] opcode = 9 ->
               set_cpsr_overflow(
                   set_cpsr_carry(FlagsZN(negated, negated[rd]), Zero32),
                   Bool32(negated[rd] = {31}))
          [] opcode = 10 -> ThumbCompare(regs, regs[rd], regs[rs])
          [] opcode = 11 -> ThumbCompare(regs, regs[rd], Neg(regs[rs]))
          [] opcode = 12 -> Logical(Or(regs[rd], regs[rs]))
          [] opcode = 13 -> set_cpsr_zero(product, Bool32(product[rd] = Zero32))
          [] opcode = 14 -> Logical(And(regs[rd], Not(regs[rs])))
          [] OTHER -> Logical(Not(regs[rs])))

\* Hi register operations / branch exchange (case 0b010, bits 12..10 = 001).
thumb_hi_register(c, instruction) ==
    LET opcode == Field(instruction, 8, 2)
        rs_hs == Field(instruction, 3, 3)
        rd_hd == Field(instruction, 0, 3)
        regs == c.registers
    IN CASE opcode = 0 -> SetReg(c, rd_hd, Add(regs[rd_hd], regs[rs_hs]))
         [] opcode = 1 -> SetRegs(c, ThumbCompare(regs, regs[rd_hd], regs[rs_hs]))
         [] opcode = 2 -> SetReg(c, rd_hd, regs[rs_hs])
         [] OTHER ->
              IF 0 \in regs[rs_hs]
              THEN SetRegs(c, [regs EXCEPT
                       ![PC] = Sub(And(regs[rs_hs], 1..31), FromNat(2)),
                       ![CPSR] = @ \ {5}])
              ELSE SetRegs(c, [regs EXCEPT
                       ![PC] = Sub(And(regs[rs_hs], 2..31), FromNat(4)),
                       ![CPSR] = @ \cup {5}])

\* A load or store of register rd at address, as the Thumb load/store
\* forms write it: a word, or a plain-char byte.
ThumbWordOrByte(c, l, b, rd, address, ub) ==
    IF l = 1
    THEN IF b = 1
         THEN SetReg(LoadState(c, address, 1, ub), rd, CharValue(c, address, ub))
         ELSE SetReg(LoadState(c, address, 4, ub), rd, LoadValue(c, address, 4, ub))
    ELSE IF b = 1
         THEN Store(c, address, 1, c.registers[rd], ub)
         ELSE Store(c, address, 4, c.registers[rd], ub)

\* case 0b010: ALU, Hi register/BX, PC-relative load, load/store with
\* register offset, sign-extended byte/halfword.  No break follows it.
thumb_group_010(c, instruction, ub) ==
    LET regs == c.registers
        ro == Field(instruction, 6, 3)
        rb == Field(instruction, 3, 3)
        rd == Field(instruction, 0, 3)
        address == Add(regs[rb], regs[ro])
        h == Bit(instruction, 11)
        s == Bit(instruction, 10)
    IN IF Bit(instruction, 12) = 0
       THEN IF Bit(instruction, 11) = 0
            THEN IF Bit(instruction, 10) = 0
                 THEN thumb_alu(c, instruction, ub)
                 ELSE thumb_hi_register(c, instruction)
            ELSE SetReg(c, Field(instruction, 8, 3),
                        Add(regs[PC], Shl(And(instruction, 0..7), 2)))
       ELSE IF Bit(instruction, 9) = 0
            THEN ThumbWordOrByte(c, Bit(instruction, 11), Bit(instruction, 10),
                                 rd, address, ub)
            ELSE IF s = 1
                 THEN IF h = 1
                      THEN SetReg(LoadState(c, address, 2, ub), rd,
                                  sign_extend(Int16Value(c, address, ub), 16, ub))
                      ELSE SetReg(LoadState(c, address, 1, ub), rd,
                                  sign_extend(CharValue(c, address, ub), 8, ub))
                 ELSE IF h = 1
                      THEN Store(c, address, 2, regs[rd], ub)
                      ELSE Store(c, address, 1, regs[rd], ub)

\* case 0b011: load/store with immediate offset.
thumb_group_011(c, instruction, ub) ==
    LET b == Bit(instruction, 12)
        l == Bit(instruction, 11)
        offset5 == Field(instruction, 6, 5)
        rb == Field(instruction, 3, 3)
        rd == Field(instruction, 0, 3)
        address == Add(c.registers[rb], FromNat(offset5 * 4))
    IN ThumbWordOrByte(c, l, b, rd, address, ub)

\* case 0b100: load/store halfword, SP-relative load/store.
thumb_group_100(c, instruction, ub) ==
    LET regs == c.registers
        hl == Bit(instruction, 10)
        offset5 == Field(instruction, 6, 5)
        rb == Field(instruction, 3, 3)
        hrd == Field(instruction, 0, 3)
        haddress == Add(regs[rb], FromNat(offset5 * 2))
        l == Bit(instruction, 11)
        rd == Field(instruction, 8, 3)
        address == Add(regs[SP], Shl(And(instruction, 0..7), 2))
    IN IF Bit(instruction, 12) = 0
       THEN IF hl = 1
            THEN SetReg(LoadState(c, haddress, 2, ub), hrd,
                        sign_extend(Int16Value(c, haddress, ub), 16, ub))
            ELSE Store(c, haddress, 2, regs[hrd], ub)
       ELSE ThumbWordOrByte(c, l, 0, rd, address, ub)

\* The register loops of push/pop and multiple load/store, from register
\* i on: [c, address].
RECURSIVE thumb_list_loop(_, _, _, _, _, _)
thumb_list_loop(c, instruction, l, i, address, ub) ==
    IF i = 8 THEN [c |-> c, address |-> address]
    ELSE IF Bit(instruction, i) = 0
    THEN thumb_list_loop(c, instruction, l, i + 1, address, ub)
    ELSE thumb_list_loop(
             IF l = 1
             THEN SetReg(LoadState(c, address, 4, ub), i, LoadValue(c, address, 4, ub))
             ELSE Store(c, address, 4, c.registers[i], ub),
             instruction, l, i + 1, Add(address, FromNat(4)), ub)

\* Push/Pop registers.
thumb_push_pop(c, instruction, ub) ==
    LET l == Bit(instruction, 11)
        r == Bit(instruction, 8)
        done == thumb_list_loop(c, instruction, l, 0, c.registers[SP], ub)
        popped == LoadState(done.c, done.address, 4, ub)
        c1 == IF r = 0 THEN done.c
              ELSE IF l = 1
              THEN SetRegs(popped, [popped.registers EXCEPT
                       ![PC] = And(LoadValue(done.c, done.address, 4, ub), 1..31),
                       ![CPSR] = @ \ {5}])
              ELSE Store(done.c, done.address, 4, done.c.registers[LR], ub)
        address == IF r = 1 THEN Add(done.address, FromNat(4)) ELSE done.address
    IN SetReg(c1, SP, address)

\* case 0b101: load address, add offset to stack pointer, push/pop.
thumb_group_101(c, instruction, ub) ==
    LET regs == c.registers
        sp == Bit(instruction, 11)
        rd == Field(instruction, 8, 3)
        offset8x4 == Shl(And(instruction, 0..7), 2)
        s == Bit(instruction, 7)
        sword7x4 == Shl(And(instruction, 0..6), 2)
    IN IF Bit(instruction, 12) = 0
       THEN SetReg(c, rd, Add(IF sp = 0 THEN regs[PC] ELSE regs[SP], offset8x4))
       ELSE IF Bit(instruction, 10) = 0
       THEN SetReg(c, SP, IF s = 0 THEN Add(regs[SP], sword7x4)
                          ELSE Sub(regs[SP], sword7x4))
       ELSE thumb_push_pop(c, instruction, ub)

\* Software interrupt (case 0b110).
thumb_swi(c, ub) ==
    LET regs == c.registers
        vector == FromNat(8)
        loaded == LoadState(c, vector, 4, ub)
    IN SetRegs(loaded, [regs EXCEPT
           ![LR] = Add(regs[PC], FromNat(4)),
           ![SPSR] = regs[CPSR],
           ![PC] = And(LoadValue(c, vector, 4, ub), 1..31),
           ![CPSR] = Or(And(@, 5..31), FromNat(ARM_MODE_SUPERVISOR))])

\* Conditional branch (case 0b110): the 4-bit cond is what the code hands
\* to cpu_check_condition as its instruction word.
thumb_conditional_branch(c, instruction, ub) ==
    LET cond == And(Shr(instruction, 8), 0..3)
        offset8 == And(instruction, 0..7)
        offset == sign_extend(Shl(offset8, 1), 9, ub)
    IN IF cpu_check_condition(c.registers[CPSR], cond)
       THEN SetReg(c, PC, Add(c.registers[PC], Add(offset, FromNat(4))))
       ELSE c

\* case 0b110: multiple load/store, software interrupt, conditional branch.
thumb_group_110(c, instruction, ub) ==
    LET l == Bit(instruction, 11)
        rb == Field(instruction, 8, 3)
        done == thumb_list_loop(c, instruction, l, 0, c.registers[rb], ub)
    IN IF Bit(instruction, 12) = 0
       THEN SetReg(done.c, rb, done.address)
       ELSE IF Field(instruction, 8, 4) = 15
       THEN thumb_swi(c, ub)
       ELSE thumb_conditional_branch(c, instruction, ub)

\* case 0b111: unconditional branch (offset11 is a uint8_t), long branch
\* with link.
thumb_group_111(c, instruction, ub) ==
    LET regs == c.registers
        offset11 == And(instruction, 0..7)
        offset == sign_extend(Shl(offset11, 1), 12, ub)
        h == Bit(instruction, 11)
        long11 == And(instruction, 0..10)
        target == Sub(Add(regs[LR], Shl(long11, 1)), FromNat(2))
    IN IF Bit(instruction, 12) = 0
       THEN SetReg(c, PC, Add(regs[PC], Add(offset, FromNat(4))))
       ELSE IF h = 0
       THEN SetReg(c, LR, Add(regs[PC], Shl(long11, 12)))
       ELSE SetRegs(c, [regs EXCEPT
                ![PC] = target,
                ![LR] = Or(Add(target, FromNat(2)), {0})])

\* The machine after cpu_process_thumb_instruction.  Groups 0b000 and 0b010
\* run on into the group that follows them in the switch.
cpu_process_thumb_instruction(c, instruction, ub) ==
    LET instruction_type == Field(instruction, 13, 3)
    IN CASE instruction_type = 0 ->
              thumb_group_001(thumb_group_000(c, instruction, ub), instruction)
         [] instruction_type = 1 -> thumb_group_001(c, instruction)
         [] instruction_type = 2 ->
              thumb_group_011(thumb_group_010(c, instruction, ub), instruction, ub)
         [] instruction_type = 3 -> thumb_group_011(c, instruction, ub)
         [] instruction_type = 4 -> thumb_group_100(c, instruction, ub)
         [] instruction_type = 5 -> thumb_group_101(c, instruction, ub)
         [] instruction_type = 6 -> thumb_group_110(c, instruction, ub)
         [] OTHER -> thumb_group_111(c, instruction, ub)

-----------------------------------------------------------------------------
(* cpu_run                                                                 *)

\* The number of loop iterations a run of the model takes at most.
MaxSteps == 6

\* The machine a handler works on: the register file, the buffer, whether
\* an access outside the buffer has ended the process, and the handler's
\* return value.
Machine(regs, mem) ==
    [registers |-> regs, memory |-> mem, fault |-> FALSE, ret |-> 1]

\* cpu->registers.pc < sizeof(memory_t)
LoopCondition == Ult(registers[PC], FromNat(SizeofMemory))

\* The instruction cpu_run fetches: the `width` bytes at pc.
Fetch(width, ub) ==
    LoadValue(Machine(registers, memory), registers[PC], width, ub)

\* The machine the handler is called on.
Fetched(width, ub) ==
    LoadState(Machine(registers, memory), registers[PC], width, ub)

\* The rest of an iteration of the while loop, c being the machine the
\* handler left: unless the handler returned 0, add `width` to pc and test
\* the break.  trace gains the iteration's entry state and the word fetched.
Iteration(width, thumb, instruction, c) ==
    /\ trace' = Append(trace, [registers |-> registers, memory |-> memory,
                               instruction |-> instruction, thumb |-> thumb])
    /\ IF c.fault
       THEN status' = "fault" /\ UNCHANGED <<registers, memory>>
       ELSE IF c.ret = 0
       THEN /\ status' = "error"
            /\ registers' = c.registers
            /\ memory' = c.memory
       ELSE /\ status' = IF Add(c.registers[PC], FromNat(width)) = Ones32
                         THEN "done" ELSE "running"
            /\ registers' = [c.registers EXCEPT ![PC] = Add(@, FromNat(width))]
            /\ memory' = c.memory

\* if (cpu->registers.cpsr & 0x20): the ARM arm of the loop body.
ArmStep ==
    /\ status = "running"
    /\ Len(trace) < MaxSteps
    /\ LoopCondition
    /\ 5 \in registers[CPSR]
    /\ \E ub \in UBChoices :
          Iteration(4, FALSE, Fetch(4, ub),
                    cpu_process_arm_instruction(Fetched(4, ub), Fetch(4, ub), ub))

\* else: the Thumb arm of the loop body.
ThumbStep ==
    /\ status = "running"
    /\ Len(trace) < MaxSteps
    /\ LoopCondition
    /\ 5 \notin registers[CPSR]
    /\ \E ub \in UBChoices :
          Iteration(2, TRUE, Fetch(2, ub),
                    cpu_process_thumb_instruction(Fetched(2, ub), Fetch(2, ub), ub))

\* The loop condition fails: cpu_run returns 0.
LoopExit ==
    /\ status = "running"
    /\ ~LoopCondition
    /\ status' = "done"
    /\ UNCHANGED <<registers, memory, trace>>

Next == ArmStep \/ ThumbStep \/ LoopExit

-----------------------------------------------------------------------------
(* Images: what main() has read into the buffer when it calls cpu_run.     *)

\* The bytes of the words ws from address base on, little-endian.
PlaceWords(base, ws) ==
    [x \in base..(base + 4 * Len(ws) - 1) |->
        Field(ws[((x - base) \div 4) + 1], 8 * ((x - base) % 4), 8)]

\* The bytes of the halfwords hs from address base on.
PlaceHalves(base, hs) ==
    [x \in base..(base + 2 * Len(hs) - 1) |->
        Field(hs[((x - base) \div 2) + 1], 8 * ((x - base) % 2), 8)]

\* Where the images put Thumb code and data.
ThumbBase == 64

DataBase == 128

Image(arm, thumb, data) ==
    PlaceWords(0, arm) @@ PlaceHalves(ThumbBase, thumb) @@ PlaceWords(DataBase, data)

\* An instruction word from its fields, each <<value, lowest bit>>.
Enc(fields) == UNION {Shl(FromNat(f[1]), f[2]) : f \in fields}

\* ARM encodings, condition AL.
ArmDPI(opcode, s, rn, rd, rotate, imm) ==
    Enc({<<14, 28>>, <<1, 25>>, <<opcode, 21>>, <<s, 20>>, <<rn, 16>>, <<rd, 12>>,
         <<rotate, 8>>, <<imm, 0>>})

ArmDPR(opcode, s, rn, rd, rm) ==
    Enc({<<14, 28>>, <<opcode, 21>>, <<s, 20>>, <<rn, 16>>, <<rd, 12>>, <<rm, 0>>})

\* Register operand 2 shifted by an immediate amount.
ArmDPS(opcode, s, rn, rd, rm, shift_type, shift_amount) ==
    Enc({<<14, 28>>, <<opcode, 21>>, <<s, 20>>, <<rn, 16>>, <<rd, 12>>,
         <<shift_amount, 7>>, <<shift_type, 5>>, <<rm, 0>>})

ArmSDT(p, u, b, w, l, rn, rd, imm) ==
    Enc({<<14, 28>>, <<1, 26>>, <<p, 24>>, <<u, 23>>, <<b, 22>>, <<w, 21>>,
         <<l, 20>>, <<rn, 16>>, <<rd, 12>>, <<imm, 0>>})

ArmBDT(p, u, s, w, l, rn, list) ==
    Enc({<<14, 28>>, <<4, 25>>, <<p, 24>>, <<u, 23>>, <<s, 22>>, <<w, 21>>,
         <<l, 20>>, <<rn, 16>>, <<list, 0>>})

ArmB(l, offset24) == Enc({<<14, 28>>, <<5, 25>>, <<l, 24>>, <<offset24, 0>>})

ArmBX(rn) == Or(Hex(<<14, 1, 2, 15, 15, 15, 1, 0>>), FromNat(rn))

ArmSWI == Hex(<<14, 15, 0, 0, 0, 0, 0, 0>>)

MOVI(rd, rotate, imm) == ArmDPI(13, 0, 0, rd, rotate, imm)

MVNI(rd, rotate, imm) == ArmDPI(15, 0, 0, rd, rotate, imm)

\* Thumb PUSH {r0-r7} and POP {r0-r7}.
ThumbPUSH == Hex(<<11, 4, 15, 15>>)

ThumbPOP == Hex(<<11, 12, 15, 15>>)

Program(arm, thumb, data) == [arm |-> arm, thumb |-> thumb, data |-> data]

\* Load a branch target from the data area and BX to it.
BXTargets ==
    {Hex(<<0, 8, 0, 0, 0, 1, 0, 1>>), Hex(<<0, 8, 0, 0, 0, 1, 0, 0>>),
     FromNat(ThumbBase + 1), FromNat(ThumbBase)}

ProgramsBX ==
    {Program(<<ArmSDT(1, 1, 0, 0, 1, 1, 0, DataBase), ArmBX(0), ArmSWI>>,
             <<ThumbPUSH>>, <<d>>) : d \in BXTargets}

\* Load r0-r7 and sp from the data area, BX r0 into Thumb code that pushes
\* and pops r0-r7.
ProgramsPushPop ==
    {Program(<<MOVI(8, 0, DataBase), ArmBDT(0, 1, 0, 0, 1, 8, 8447), ArmBX(0)>>,
             <<ThumbPUSH, ThumbPOP>>,
             <<FromNat(ThumbBase - 1), FromNat(1), FromNat(2), x, FromNat(4),
               FromNat(5), FromNat(6), Hex(<<8, 0, 0, 0, 0, 0, 0, 7>>), sp>>) :
        x \in {FromNat(3), Ones32}, sp \in {FromNat(256), FromNat(512)}}

\* Writes of r15 by a data-processing instruction, branches, and LDM with
\* the S bit and r15 in the list.
ProgramsPC ==
    {Program(<<MOVI(15, 0, imm), ArmSWI>>, <<>>, <<>>) : imm \in {1, 16, 18}}
    \cup {Program(<<ArmB(l, off), ArmSWI, ArmSWI, ArmSWI>>, <<>>, <<>>) :
             l \in {0, 1}, off \in {0, 1}}
    \cup {Program(<<ArmBDT(0, 1, s, 0, 1, 0, 32768), ArmSWI>>, <<>>, <<>>) :
             s \in {0, 1}}

\* STM and LDM of {r1, r2} at base r0, in the four addressing modes, with
\* and without the W bit.
BlockBase == DataBase + 8

ProgramsBlock ==
    {Program(<<MOVI(0, 0, BlockBase), MOVI(1, 0, 17), MOVI(2, 0, 34),
               ArmBDT(p, u, 0, w, l, 0, 6), ArmSWI>>,
             <<>>,
             <<FromNat(160), FromNat(161), FromNat(162), FromNat(163), FromNat(164)>>) :
        p \in {0, 1}, u \in {0, 1}, w \in {0, 1}, l \in {0, 1}}

\* The instructions that leave the first ALU operand in r1, and the
\* immediate second operands (<<rotate, imm>>).
OperandA ==
    {MOVI(1, 0, 0), MOVI(1, 0, 1), MOVI(1, 1, 2), MVNI(1, 1, 2), MVNI(1, 0, 0)}

OperandB == {<<0, 0>>, <<0, 1>>, <<1, 2>>, <<0, 255>>, <<1, 3>>}

\* SUBS, ADDS, CMP and CMN of r1 against an immediate, into r0 or r1; and
\* SUBS r0, r1, r2 and ADDS r0, r1, r2 with r2 = 1.
ProgramsALU ==
    {Program(<<a, ArmDPI(opcode, 1, 1, rd, b[1], b[2]), ArmSWI>>, <<>>, <<>>) :
        a \in OperandA, opcode \in {2, 4, 10, 11}, rd \in {0, 1}, b \in OperandB}
    \cup {Program(<<a, MOVI(2, 0, 1), ArmDPR(opcode, 1, 1, 0, 2), ArmSWI>>, <<>>, <<>>) :
             a \in OperandA, opcode \in {2, 4}}

\* Set a base in r0 and a word in r1, store the word, load a word.
StoreForms ==
    {ArmSDT(1, 1, 0, 0, 0, 0, 1, 0), ArmSDT(1, 1, 0, 0, 0, 0, 1, 4),
     ArmSDT(1, 1, 0, 1, 0, 0, 1, 4), ArmSDT(0, 1, 0, 0, 0, 0, 1, 4),
     ArmSDT(1, 0, 0, 0, 0, 0, 1, 4)}

LoadForms ==
    {ArmSDT(f[1], f[2], 0, f[3], 1, 0, rd, f[4]) :
        f \in {<<1, 1, 0, 0>>, <<1, 1, 0, 4>>, <<1, 0, 0, 4>>, <<0, 1, 0, 0>>,
               <<0, 1, 0, 4>>, <<1, 1, 1, 4>>},
        rd \in {2, 0, 15}}

StoredWords == {MOVI(1, 0, 90), MVNI(1, 0, 0), MOVI(1, 1, 2), MOVI(1, 4, 165)}

ProgramsStoreLoad ==
    {Program(<<MOVI(0, 0, DataBase), w, st, ld, ArmSWI>>, <<>>, <<>>) :
        w \in StoredWords, st \in StoreForms, ld \in LoadForms}
    \cup {Program(<<w, ArmSDT(1, 1, 0, 0, 0, 15, 1, 0),
                    ArmSDT(1, 1, 0, 0, 1, 15, 2, 0), ArmSWI, ArmSWI>>, <<>>, <<>>) :
             w \in StoredWords}

\* r2 = 2 and a value in r1, CMP r0 against 0 (C = 1) or 1 (C = 0), then a
\* flag-setting logical instruction: MOVS r0, r1, LSL #n; each logical
\* opcode with the unrotated immediate 1 and with r2 unshifted.
ProgramsShift ==
    {Program(<<MOVI(2, 0, 2), a, ArmDPI(10, 1, 0, 0, 0, b), op, ArmSWI>>, <<>>, <<>>) :
        a \in {MOVI(1, 1, 2), MOVI(1, 0, 1), MOVI(1, 0, 3)},
        b \in {0, 1},
        op \in {ArmDPS(13, 1, 0, 0, 1, 0, n) : n \in {0, 1, 2, 30, 31}}
               \cup {ArmDPI(o, 1, 1, 0, 0, 1) : o \in {0, 1, 8, 9, 12, 13, 14, 15}}
               \cup {ArmDPR(o, 1, 1, 0, 2) : o \in {0, 1, 8, 9, 12, 13, 14, 15}}}

\* LDR r0, [r1] with r1 at each byte of the first data word.
ProgramsUnaligned ==
    {Program(<<MOVI(1, 0, DataBase + k), ArmSDT(1, 1, 0, 0, 1, 1, 0, 0), ArmSWI>>,
             <<>>,
             <<Hex(<<4, 4, 3, 3, 2, 2, 1, 1>>), next>>) :
        k \in 0..3,
        next \in {Hex(<<8, 8, 7, 7, 6, 6, 5, 5>>), Hex(<<8, 8, 7, 7, 6, 6, 1, 1>>)}}

\* CMP r0 against a value that leaves Z and C set, only C set, or neither,
\* BX into Thumb code that starts with a conditional branch or SWI.
ProgramsThumbBranch ==
    {Program(<<MOVI(0, 0, ThumbBase - 1), ArmDPI(10, 1, 0, 0, 0, b), ArmBX(0)>>,
             <<t, Zero32, Zero32, Zero32, Zero32, Zero32, Zero32, Zero32>>,
             <<>>) :
        b \in {ThumbBase - 1, 1, ThumbBase},
        t \in {Enc({<<13, 12>>, <<cond, 8>>, <<offset8, 0>>}) :
                  cond \in 0..13, offset8 \in {3, 254}}
               \cup {Hex(<<13, 15, 0, 0>>)}}

\* CMP r0 against 0 (Z = 1) or 1 (Z = 0), then B or BL at address 4 under
\* a condition, forwards, backwards and to both ends of the offset range;
\* and BL to address 8, then B or BL there with lr already set.
ProgramsBranch ==
    {Program(<<ArmDPI(10, 1, 0, 0, 0, b),
               Or(And(ArmB(l, off), 0..27), Shl(FromNat(cond), 28)),
               ArmSWI, ArmSWI, ArmSWI>>, <<>>, <<>>) :
        b \in {0, 1}, l \in {0, 1}, cond \in {14, 0, 1, 2},
        off \in {0, 1, 16777215, 16777213, 8388608, 8388607}}
    \cup {Program(<<ArmB(1, 0), ArmSWI, ArmB(l, off), ArmSWI, ArmSWI>>, <<>>, <<>>) :
             l \in {0, 1}, off \in {0, 16777213}}

\* Coprocessor and undefined instruction words, and MVN pc, #4.
ProgramsStop ==
    {Program(<<w, ArmSWI>>, <<>>, <<>>) :
        w \in {Hex(<<14, 14, 0, 0, 0, 0, 0, 0>>), Hex(<<14, 12, 1, 0, 0, 0, 0, 0>>),
               Hex(<<14, 6, 0, 0, 0, 0, 1, 0>>), MVNI(15, 0, 4)}}

\* LDMIA r8, {r1-r7, sp, lr} from address 0 (r1 and r2 get the first two
\* instruction words, r3 = 70, r4 = 63, r5 = 76, r6 = 0x30, r7 = 4), BX r4
\* into the Thumb code at 64.  The Thumb code is one instruction of each
\* group followed by zeros; a long branch with link pair; or SWI, whose
\* vector word at 8 leads to BX r5 at 72 and from there to the ARM
\* instruction MSR cpsr, r6 at 74.
ProgramsThumb ==
    {Program(<<ArmBDT(0, 1, 0, 0, 1, 8, 24830), ArmBX(4), FromNat(70),
               FromNat(ThumbBase - 1), FromNat(76), FromNat(48), FromNat(4),
               FromNat(256), lr>>,
             t, <<>>) :
        lr \in {FromNat(300), Hex(<<0, 0, 0, 15, 15, 0, 0, 0>>)},
        t \in {<<i, Zero32, Zero32, Zero32>> :
                  i \in {Hex(<<0, 0, 4, 6>>), Hex(<<0, 0, 0, 14>>), Hex(<<1, 12, 4, 6>>),
                         Hex(<<4, 1, 15, 9>>), Hex(<<4, 0, 1, 1>>), Hex(<<4, 14, 0, 1>>),
                         Hex(<<10, 6, 0, 1>>), Hex(<<4, 6, 7, 14>>), Hex(<<3, 8, 0, 1>>),
                         Hex(<<15, 8, 0, 3>>)}}
               \cup {<<Or(Hex(<<15, 0, 0, 0>>), FromNat(hi)),
                       Or(Hex(<<15, 8, 0, 0>>), FromNat(lo)), Zero32, Zero32>> :
                        hi \in {0, 1, 2047}, lo \in {0, 3}}
               \cup {<<Hex(<<13, 15, 0, 0>>), Zero32, Zero32, Zero32,
                       Hex(<<4, 7, 2, 8>>), Hex(<<15, 0, 0, 6>>), Hex(<<14, 1, 2, 9>>)>>}}

\* ARM operand and status-register cases: MOVS r0, r2, ROR #n and
\* MOVS r0, r2, <shift> r3 (r3 = 0) after a CMP that sets or clears C;
\* MSR to CPSR in User mode from each source value; ADD r0, pc, #imm and
\* MOV r0, pc; and, after CMP r0, #0 or #1, each body under each of six
\* condition fields.
ProgramsOperand ==
    {Program(<<MOVI(2, 0, 2), ArmDPI(10, 1, 0, 0, 0, b), op, ArmSWI>>, <<>>, <<>>) :
        b \in {0, 1},
        op \in {ArmDPS(13, 1, 0, 0, 2, 3, n) : n \in {1, 2, 4, 30}}
               \cup {Or(ArmDPS(13, 1, 0, 0, 2, type, 6), {4}) : type \in 0..3}}
    \cup {Program(<<a, msr, ArmSWI>>, <<>>, <<>>) :
             a \in {MVNI(1, 0, 0), MOVI(1, 0, 0), MOVI(1, 1, 2), MOVI(1, 0, 223),
                    MVNI(1, 0, 48)},
             msr \in {Hex(<<14, 1, 2, 9, 15, 0, 0, 1>>), Hex(<<14, 1, 2, 8, 15, 0, 0, 1>>),
                      Hex(<<14, 1, 2, 1, 15, 0, 0, 1>>), Hex(<<14, 3, 2, 9, 15, 0, 0, 1>>)}}
    \cup {Program(<<MOVI(1, 0, 1), op, ArmSWI>>, <<>>, <<>>) :
             op \in {ArmDPI(4, 0, 15, 0, 0, 0), ArmDPI(4, 0, 15, 0, 0, 4),
                     ArmDPI(2, 0, 15, 0, 0, 1), ArmDPR(13, 0, 0, 0, 15),
                     ArmDPR(4, 0, 1, 0, 15)}}
    \cup {Program(<<ArmDPI(10, 1, 0, 0, 0, b), MVNI(1, 0, 0),
                    Or(And(body, 0..27), Shl(FromNat(cond), 28)), ArmSWI, ArmSWI>>,
                  <<>>, <<FromNat(16), FromNat(16)>>) :
             b \in {0, 1}, cond \in {0, 1, 3, 8, 11, 15},
             body \in {Hex(<<14, 14, 0, 0, 0, 0, 0, 0>>), ArmSWI, ArmBX(1),
                       MOVI(15, 0, 16), ArmSDT(1, 1, 0, 0, 0, 0, 1, DataBase),
                       ArmB(1, 1), ArmBDT(0, 1, 1, 1, 1, 0, 32770),
                       Hex(<<14, 1, 2, 9, 15, 0, 0, 1>>), ArmDPI(4, 1, 1, 2, 0, 1)}}

Programs ==
    ProgramsBX \cup ProgramsPushPop \cup ProgramsPC \cup ProgramsBlock
    \cup ProgramsALU \cup ProgramsStoreLoad \cup ProgramsShift
    \cup ProgramsUnaligned \cup ProgramsThumbBranch \cup ProgramsBranch
    \cup ProgramsStop \cup ProgramsThumb \cup ProgramsOperand

Images == {Image(p.arm, p.thumb, p.data) : p \in Programs}

\* cpu_run has cleared the registers and set bits 5 and 4 of cpsr.
Init ==
    /\ registers = [i \in RegIndex |-> IF i = CPSR THEN {4, 5} ELSE Zero32]
    /\ memory \in Images
    /\ status = "running"
    /\ trace = <<>>

Spec == Init /\ [][Next]_vars

\* cpu_check_condition on its own: any N, Z, C, V with the other bits of
\* cpsr as cpu_run sets them, all clear or all set, and an instruction
\* word with any condition field over low bits all clear, all set or those
\* of a BX.  One call decides the status.
CondInit ==
    /\ registers \in {[i \in RegIndex |-> IF i = CPSR THEN flags \cup low ELSE Zero32] :
                        flags \in SUBSET (28..31), low \in {{4, 5}, {}, 0..27}}
    /\ memory = <<>>
    /\ status = "running"
    /\ trace = <<>>

CondStep ==
    /\ status = "running"
    /\ trace = <<>>
    /\ \E cond \in 0..15, low \in {Zero32, 0..27, And(ArmBX(0), 0..27)} :
          LET instruction == Or(Shl(FromNat(cond), 28), low)
          IN /\ trace' = <<[registers |-> registers, memory |-> memory,
                            instruction |-> instruction, thumb |-> FALSE]>>
             /\ status' = IF cpu_check_condition(registers[CPSR], instruction)
                          THEN "passed" ELSE "failed"
    /\ UNCHANGED <<registers, memory>>

SpecCond == CondInit /\ [][CondStep]_vars

-----------------------------------------------------------------------------
(* The iterations a property speaks about.  trace[k] is the state in which *)
(* iteration k was entered, with the instruction it fetched and the        *)
(* handler it called; the current state is the state the last iteration    *)
(* left.                                                                   *)

\* The last iteration ran to the end of the loop body.
Stepped == Len(trace) > 0 /\ status \in {"running", "done"}

\* The entry state of the last iteration, and of the one before it.
Entry == trace[Len(trace)]

Before == trace[Len(trace) - 1]

\* The iteration called the ARM handler and the condition field passed.
ArmExecuted(e) ==
    ~e.thumb /\ cpu_check_condition(e.registers[CPSR], e.instruction)

\* The ARM decoding of cpu_process_arm_instruction.
IsArmBX(e) ==
    /\ ArmExecuted(e)
    /\ Field(e.instruction, 4, 24) = ToNat(Hex(<<1, 2, 15, 15, 15, 1>>))

IsArmDataProcessing(e) ==
    /\ ArmExecuted(e)
    /\ Field(e.instruction, 26, 2) = 0
    /\ ~IsArmBX(e)
    /\ (Bit(e.instruction, 25) = 1 \/ Bit(e.instruction, 7) = 0)

IsArmTransfer(e) == ArmExecuted(e) /\ Field(e.instruction, 26, 2) = 1

IsArmBranch(e) == ArmExecuted(e) /\ Field(e.instruction, 25, 3) = 5

IsArmBlock(e) == ArmExecuted(e) /\ Field(e.instruction, 25, 3) = 4

\* Base writeback of a single or block data transfer: W = 1 or P = 0.
WritesBack(i) == Bit(i, 21) = 1 \/ Bit(i, 24) = 0

\* Operand 2 of a data-processing instruction whose operand is an
\* immediate, or a register that is not shifted.
IsPlainOperand(i) == Bit(i, 25) = 1 \/ Field(i, 4, 8) = 0

PlainOperand(e) ==
    IF Bit(e.instruction, 25) = 1
    THEN rotr32(And(e.instruction, 0..7), Field(e.instruction, 8, 4) * 2)
    ELSE e.registers[Field(e.instruction, 0, 4)]

\* Does the ARM instruction of iteration e write r15?
ArmWritesPC(e) ==
    \/ IsArmBX(e)
    \/ /\ IsArmDataProcessing(e)
       /\ Field(e.instruction, 12, 4) = 15
       /\ Field(e.instruction, 21, 4) \notin 8..11
    \/ /\ IsArmTransfer(e)
       /\ \/ Bit(e.instruction, 20) = 1 /\ Field(e.instruction, 12, 4) = 15
          \/ WritesBack(e.instruction) /\ Field(e.instruction, 16, 4) = 15
    \/ IsArmBranch(e)
    \/ /\ IsArmBlock(e)
       /\ \/ Bit(e.instruction, 20) = 1 /\ Bit(e.instruction, 15) = 1
          \/ WritesBack(e.instruction) /\ Field(e.instruction, 16, 4) = 15
    \/ ArmExecuted(e) /\ Field(e.instruction, 26, 2) = 3

\* Does the Thumb instruction of iteration e write r15?  (BX, POP with the
\* R bit, SWI and the conditional branches, B and the second half of BL.)
ThumbWritesPC(e) ==
    /\ e.thumb
    /\ \/ Field(e.instruction, 10, 6) = 17 /\ Field(e.instruction, 8, 2) = 3
       \/ /\ Field(e.instruction, 12, 4) = 11
          /\ Field(e.instruction, 9, 3) = 6
          /\ Bit(e.instruction, 8) = 1
       \/ Field(e.instruction, 12, 4) = 13
       \/ Field(e.instruction, 12, 4) = 14
       \/ Field(e.instruction, 11, 5) = 31

\* The instruction width of iteration e.
Width(e) == FromNat(IF e.thumb THEN 2 ELSE 4)

\* MOV r15, #immediate.
IsArmMovImmediateToPC(e) ==
    /\ IsArmDataProcessing(e)
    /\ Bit(e.instruction, 25) = 1
    /\ Field(e.instruction, 21, 4) = 13
    /\ Field(e.instruction, 12, 4) = 15

\* The target of the B or BL of iteration e: its address, plus 8, plus the
\* sign-extended 24-bit offset times 4.
ArmBranchTarget(e) ==
    LET offset == Shl(And(e.instruction, 0..23), 2)
    IN Add(Add(e.registers[PC], FromNat(8)),
           IF 25 \in offset THEN Or(offset, 26..31) ELSE offset)

\* (C1) On every step of cpu_run the handler follows CPSR bit 5: the loop
\* fetches 16 bits and calls the Thumb handler exactly when T = 1, and
\* fetches 32 bits and calls the ARM handler exactly when T = 0.
C1_WidthFollowsT ==
    \A k \in 1..Len(trace) : trace[k].thumb = (5 \in trace[k].registers[CPSR])

\* (C2) After every executed instruction, PC is the value the instruction
\* wrote if it wrote PC (stated for MOV r15, #imm, for B/BL and for BX),
\* with no default advance added, and otherwise the instruction's address
\* plus the instruction width.
C2_NextPC ==
    Stepped =>
        IF IsArmMovImmediateToPC(Entry)
        THEN registers[PC] = PlainOperand(Entry)
        ELSE IF IsArmBranch(Entry)
        THEN registers[PC] = ArmBranchTarget(Entry)
        ELSE IF IsArmBX(Entry)
        THEN registers[PC] =
                 Entry.registers[Field(Entry.instruction, 0, 4)]
                     \ (IF 0 \in Entry.registers[Field(Entry.instruction, 0, 4)]
                        THEN {0} ELSE {0, 1})
        ELSE IF ArmWritesPC(Entry) \/ ThumbWritesPC(Entry)
        THEN TRUE
        ELSE registers[PC] = Add(Entry.registers[PC], Width(Entry))

\* (C3) At every step entry PC is a multiple of 4 when the step is an ARM
\* step and a multiple of 2 when it is a Thumb step.
C3_PCAligned ==
    \A k \in 1..Len(trace) :
        IF trace[k].thumb
        THEN 0 \notin trace[k].registers[PC]
        ELSE trace[k].registers[PC] \cap {0, 1} = {}

\* The seven modes of the table.
ValidModes ==
    {ARM_MODE_USER, ARM_MODE_FIQ, ARM_MODE_IRQ, ARM_MODE_SUPERVISOR,
     ARM_MODE_ABORT, ARM_MODE_UNDEFINED, ARM_MODE_SYSTEM}

\* (C4) In every reachable state the mode field of CPSR (bits 4..0) is one
\* of the seven modes 0x10, 0x11, 0x12, 0x13, 0x17, 0x1B, 0x1F.
C4_ModeValid == get_cpsr_mode(registers[CPSR]) \in ValidModes

\* (C5) After ARM BX Rn: if Rn has bit 0 set, PC = Rn & ~1 and T = 1; if it
\* has bit 0 clear, PC = Rn & ~3 and T = 0.
C5_BXInterworking ==
    Stepped /\ IsArmBX(Entry) =>
        LET target == Entry.registers[Field(Entry.instruction, 0, 4)]
        IN IF 0 \in target
           THEN registers[PC] = target \ {0} /\ 5 \in registers[CPSR]
           ELSE registers[PC] = target \ {0, 1} /\ 5 \notin registers[CPSR]

IsThumbPush(e) == e.thumb /\ e.instruction = ThumbPUSH

IsThumbPop(e) == e.thumb /\ e.instruction = ThumbPOP

\* (C6) Thumb PUSH {r0-r7} lowers SP by 32, and PUSH {r0-r7} immediately
\* followed by POP {r0-r7} leaves r0..r7 and SP as they were before the
\* PUSH.
C6_PushPopRoundTrip ==
    /\ Stepped /\ IsThumbPush(Entry) =>
           registers[SP] = Sub(Entry.registers[SP], FromNat(32))
    /\ Stepped /\ Len(trace) >= 2 /\ IsThumbPush(Before) /\ IsThumbPop(Entry) =>
           \A r \in (0..7) \cup {SP} : registers[r] = Before.registers[r]

\* A word STR (l = 0) or LDR (l = 1) with an immediate offset.
IsArmWordTransfer(e, l) ==
    /\ IsArmTransfer(e)
    /\ Bit(e.instruction, 25) = 0
    /\ Bit(e.instruction, 22) = 0
    /\ Bit(e.instruction, 20) = l

\* The address it transfers at.
TransferAddress(e) ==
    arm_transfer_address(e.registers, e.instruction, And(e.instruction, 0..11))

\* The last two iterations were a word STR and then a word LDR at the same
\* 4-byte-aligned address inside the buffer.
StoreThenLoad ==
    /\ Stepped
    /\ Len(trace) >= 2
    /\ IsArmWordTransfer(Before, 0)
    /\ IsArmWordTransfer(Entry, 1)
    /\ TransferAddress(Before) = TransferAddress(Entry)
    /\ TransferAddress(Entry) \cap {0, 1} = {}
    /\ InBounds(TransferAddress(Entry), 4)

\* The word the STR stored, and the registers of the LDR.
StoredWord == Before.registers[Field(Before.instruction, 12, 4)]

LoadRd == Field(Entry.instruction, 12, 4)

LoadRn == Field(Entry.instruction, 16, 4)

Listed(i) == {r \in 0..15 : Bit(i, r) = 1}

\* Where the block of the LDM/STM of iteration e starts: at the base (IA),
\* 4 above it (IB), or so that it ends at the base (DA) or 4 below it (DB).
BlockStart(e) ==
    LET base == e.registers[Field(e.instruction, 16, 4)]
        size == FromNat(4 * Cardinality(Listed(e.instruction)))
    IN IF Bit(e.instruction, 23) = 1
       THEN IF Bit(e.instruction, 24) = 0 THEN base ELSE Add(base, FromNat(4))
       ELSE IF Bit(e.instruction, 24) = 0
            THEN Add(Sub(base, size), FromNat(4))
            ELSE Sub(base, size)

\* The slot of register r: the lowest register at the start of the block,
\* each further register 4 bytes higher.
BlockSlot(e, r) ==
    Add(BlockStart(e),
        FromNat(4 * Cardinality({q \in Listed(e.instruction) : q < r})))

\* The word the buffer holds at address a, when all four bytes are known.
WordKnown(mem, a) ==
    InBounds(a, 4) /\ \A j \in 0..3 : ToNat(a) + j \in DOMAIN mem

WordAt(mem, a) ==
    UNION {Shl(ByteWord(mem[ToNat(a) + j]), 8 * j) : j \in 0..3}

\* (C8) After an ARM LDM or STM in any of the four addressing modes, each
\* listed register corresponds to the word of its slot, the lowest
\* register at the lowest address of the block and every higher register
\* 4 bytes above the one before it.
C8_BlockOrder ==
    /\ Stepped
    /\ IsArmBlock(Entry)
    /\ Field(Entry.instruction, 16, 4) \notin Listed(Entry.instruction)
    /\ PC \notin Listed(Entry.instruction)
    =>
    \A r \in Listed(Entry.instruction) :
        WordKnown(memory, BlockSlot(Entry, r)) =>
            WordAt(memory, BlockSlot(Entry, r)) =
                IF Bit(Entry.instruction, 20) = 1 THEN registers[r]
                ELSE Entry.registers[r]

\* The flags of a state as <<N, Z, C, V>>.
Flags(regs) ==
    <<get_cpsr_negative(regs[CPSR]), get_cpsr_zero(regs[CPSR]),
      get_cpsr_carry(regs[CPSR]), get_cpsr_overflow(regs[CPSR])>>

\* A data-processing instruction with the given opcode that sets the
\* flags, Rd not r15, operand 2 an immediate or an unshifted register.
IsFlagSetting(e, opcode) ==
    /\ IsArmDataProcessing(e)
    /\ Field(e.instruction, 21, 4) = opcode
    /\ Bit(e.instruction, 20) = 1
    /\ Field(e.instruction, 12, 4) # PC
    /\ IsPlainOperand(e.instruction)

OperandRn(e) == e.registers[Field(e.instruction, 16, 4)]

\* (C9) After SUBS or CMP of a (Rn) and b (operand 2), for every Rd:
\* N = bit 31 of a - b, Z = (a = b), C = (a >= b unsigned),
\* V = (bit31(a) # bit31(b)) and (bit31(a - b) # bit31(a)); and SUBS leaves
\* a - b in Rd.
C9_SubtractFlags ==
    Stepped /\ (IsFlagSetting(Entry, 2) \/ IsFlagSetting(Entry, 10)) =>
        LET a == OperandRn(Entry)
            b == PlainOperand(Entry)
            d == Sub(a, b)
        IN /\ Flags(registers) =
                  <<Bit(d, 31),
                    IF a = b THEN 1 ELSE 0,
                    IF Uge(a, b) THEN 1 ELSE 0,
                    IF Bit(a, 31) # Bit(b, 31) /\ Bit(d, 31) # Bit(a, 31)
                    THEN 1 ELSE 0>>
           /\ IsFlagSetting(Entry, 2) =>
                  registers[Field(Entry.instruction, 12, 4)] = d

\* (C10) After ADDS or CMN of A (Rn) and B (operand 2): N = bit 31 of
\* A + B, Z = (A + B = 0 mod 2^32), C = the carry out of bit 31 of A + B,
\* V = (bit31(A) = bit31(B)) and (bit31(A + B) # bit31(A)); and ADDS leaves
\* (A + B) mod 2^32 in Rd.
C10_AddFlags ==
    Stepped /\ (IsFlagSetting(Entry, 4) \/ IsFlagSetting(Entry, 11)) =>
        LET a == OperandRn(Entry)
            b == PlainOperand(Entry)
            sum == Add(a, b)
        IN /\ Flags(registers) =
                  <<Bit(sum, 31),
                    IF sum = Zero32 THEN 1 ELSE 0,
                    IF Ult(sum, a) THEN 1 ELSE 0,
                    IF Bit(a, 31) = Bit(b, 31) /\ Bit(sum, 31) # Bit(a, 31)
                    THEN 1 ELSE 0>>
           /\ IsFlagSetting(Entry, 4) =>
                  registers[Field(Entry.instruction, 12, 4)] = sum


\* The logical opcodes: AND, EOR, TST, TEQ, ORR, MOV, BIC, MVN.
LogicalOpcodes == {0, 1, 8, 9, 12, 13, 14, 15}

\* The instruction set's data-processing encoding with operand 2 an
\* immediate or a register shifted by an immediate amount; the flags are
\* to be set and Rd is not r15.
IsFlagSettingShift(e) ==
    /\ ArmExecuted(e)
    /\ Field(e.instruction, 26, 2) = 0
    /\ ~IsArmBX(e)
    /\ Bit(e.instruction, 25) = 1 \/ Bit(e.instruction, 4) = 0
    /\ Bit(e.instruction, 20) = 1
    /\ Field(e.instruction, 12, 4) # PC

\* LSL by an immediate amount (0..31) of register Rm.
IsLSLImmediate(i) == Bit(i, 25) = 0 /\ Bit(i, 4) = 0 /\ Field(i, 5, 2) = 0

\* (C11) After a logical data-processing instruction (AND, EOR, TST, TEQ,
\* ORR, MOV, BIC, MVN) with S set and Rd not r15, whose operand 2 is an
\* unrotated immediate or Rm LSL #n, the C flag is the carry_out of the
\* barrel shifter (the C flag on entry for the immediate and for LSL #0)
\* and the V flag is the V flag on entry.
C11_LogicalCarry ==
    /\ Stepped
    /\ IsFlagSettingShift(Entry)
    /\ Field(Entry.instruction, 21, 4) \in LogicalOpcodes
    /\ \/ Bit(Entry.instruction, 25) = 1 /\ Field(Entry.instruction, 8, 4) = 0
       \/ IsLSLImmediate(Entry.instruction)
    => /\ get_cpsr_carry(registers[CPSR]) =
              IF Bit(Entry.instruction, 25) = 1 \/ Field(Entry.instruction, 7, 5) = 0
              THEN get_cpsr_carry(Entry.registers[CPSR])
              ELSE Bit(Entry.registers[Field(Entry.instruction, 0, 4)],
                       32 - Field(Entry.instruction, 7, 5))
       /\ get_cpsr_overflow(registers[CPSR]) = get_cpsr_overflow(Entry.registers[CPSR])


\* (C12) After MOVS Rd, Rm, LSL #n with 1 <= n <= 31 and Rd not r15, Rd
\* holds Rm shifted left by n, C is bit 32 - n of Rm and Z tells whether
\* the shifted value is zero (MOVS r0, r1, LSL #1 with r1 = 0x80000000
\* gives r0 = 0, Z = 1, C = 1).
C12_ShiftLeftOperand ==
    /\ Stepped
    /\ IsFlagSettingShift(Entry)
    /\ Field(Entry.instruction, 21, 4) = 13
    /\ IsLSLImmediate(Entry.instruction)
    /\ Field(Entry.instruction, 7, 5) \in 1..31
    => LET operand == Shl(Entry.registers[Field(Entry.instruction, 0, 4)],
                          Field(Entry.instruction, 7, 5))
       IN /\ registers[Field(Entry.instruction, 12, 4)] = operand
          /\ get_cpsr_carry(registers[CPSR]) =
                 Bit(Entry.registers[Field(Entry.instruction, 0, 4)],
                     32 - Field(Entry.instruction, 7, 5))
          /\ get_cpsr_zero(registers[CPSR]) = IF operand = Zero32 THEN 1 ELSE 0


\* (C13) A word LDR (Rd not r15, and not the written-back base) from an
\* address that is not a multiple of 4 leaves in Rd the word at the
\* address rounded down to a multiple of 4, rotated right by 8 times the
\* low two bits of the address (bytes 11 22 33 44 read at offset 1 give
\* 0x11443322).
C13_UnalignedLoadRotates ==
    /\ Stepped
    /\ IsArmWordTransfer(Entry, 1)
    /\ LoadRd # PC
    /\ ~(WritesBack(Entry.instruction) /\ LoadRn = LoadRd)
    /\ TransferAddress(Entry) \cap {0, 1} # {}
    /\ WordKnown(Entry.memory, And(TransferAddress(Entry), 2..31))
    => registers[LoadRd] =
           rotr32(WordAt(Entry.memory, And(TransferAddress(Entry), 2..31)),
                  8 * Field(TransferAddress(Entry), 0, 2))


\* The iteration called the Thumb handler with a conditional branch: bits
\* 15..12 are 1101 and the condition in bits 11..8 is one of EQ .. LE.
IsThumbConditionalBranch(e) ==
    /\ e.thumb
    /\ Field(e.instruction, 12, 4) = 13
    /\ Field(e.instruction, 8, 4) \in 0..13

\* The target of the Thumb conditional branch of iteration e: its address,
\* plus 4, plus the 9-bit sign extension of offset8 times 2.
ThumbBranchTarget(e) ==
    LET offset == Shl(And(e.instruction, 0..7), 1)
    IN Add(Add(e.registers[PC], FromNat(4)),
           IF 8 \in offset THEN Or(offset, 9..31) ELSE offset)

\* (C14) A Thumb conditional branch with a forward offset is taken (the
\* next PC is not the address of the following halfword) exactly when the
\* condition in its bits 11..8, one of EQ .. LE, holds for the N, Z, C and
\* V flags on entry.
C14_ThumbBranchCondition ==
    /\ Stepped
    /\ IsThumbConditionalBranch(Entry)
    /\ Bit(Entry.instruction, 7) = 0
    => (registers[PC] # Add(Entry.registers[PC], FromNat(2))
        <=> cpu_check_condition(Entry.registers[CPSR],
                                Shl(And(Shr(Entry.instruction, 8), 0..3), 28)))

\* (C15) A Thumb conditional branch at address A that is taken leaves
\* PC = A + 4 + sign_extend_9(offset8 * 2) (BEQ 0xD003 with Z = 1 leaves
\* PC = A + 10).
C15_ThumbBranchTarget ==
    /\ Stepped
    /\ IsThumbConditionalBranch(Entry)
    /\ registers[PC] # Add(Entry.registers[PC], FromNat(2))
    => registers[PC] = ThumbBranchTarget(Entry)


\* (C16) For every N, Z, C, V and every instruction word,
\* cpu_check_condition returns true exactly as the table on bits 31..28
\* says: EQ = Z, NE = not Z, CS = C, CC = not C, MI = N, PL = not N,
\* VS = V, VC = not V, HI = C and not Z, LS = not C or Z, GE = (N = V),
\* LT = (N # V), GT = not Z and N = V, LE = Z or N # V, AL = true,
\* NV = false.
C16_ConditionTable ==
    status \in {"passed", "failed"} =>
        LET N == 31 \in Entry.registers[CPSR]
            Z == 30 \in Entry.registers[CPSR]
            C == 29 \in Entry.registers[CPSR]
            V == 28 \in Entry.registers[CPSR]
            table == <<Z, ~Z, C, ~C, N, ~N, V, ~V, C /\ ~Z, ~C \/ Z,
                       N = V, N # V, ~Z /\ N = V, Z \/ N # V, TRUE, FALSE>>
        IN (status = "passed") = table[Field(Entry.instruction, 28, 4) + 1]

\* HI has been evaluated with C = 1 and Z = 1 and has failed, and the
\* other bits of cpsr and of the instruction were all set.
C16_HigherFailsOnZero ==
    /\ status = "failed"
    /\ Entry.instruction = {31} \cup (0..27)
    /\ Entry.registers[CPSR] = {29, 30} \cup (0..27)


\* (C17) An ARM B or BL at address A whose condition passes leaves
\* PC = A + 8 + 4 * sign_extend_24(offset24) modulo 2^32; with L = 1 it
\* leaves LR = A + 4, and with L = 0 it leaves LR as it was.
C17_BranchTarget ==
    Stepped /\ IsArmBranch(Entry) =>
        /\ registers[PC] = ArmBranchTarget(Entry)
        /\ registers[LR] = IF Bit(Entry.instruction, 24) = 1
                           THEN Add(Entry.registers[PC], FromNat(4))
                           ELSE Entry.registers[LR]

\* A BLEQ at address 4 with offset24 = 0xFFFFFD has been executed: it has
\* left lr = 8 and pc = 0.
C17_BranchReached ==
    /\ Stepped
    /\ IsArmBranch(Entry)
    /\ Bit(Entry.instruction, 24) = 1
    /\ Bit(Entry.instruction, 23) = 1
    /\ Field(Entry.instruction, 28, 4) = 0
    /\ Entry.registers[PC] = FromNat(4)
    /\ registers[LR] = FromNat(8)
    /\ registers[PC] = Zero32


\* (C18) A step that fetches a coprocessor instruction (bits 27..26 = 11
\* and bits 27..24 not 1111) or a word of the undefined-instruction space
\* (bits 27..25 = 011 with bit 4 set) takes the undefined-instruction
\* exception in that step: the run goes on with SPSR = the CPSR on entry,
\* mode = UNDEFINED (0x1B), T clear, LR = the address of the next
\* instruction and PC = 0x00000004.
C18_UndefinedException ==
    /\ Len(trace) > 0
    /\ status # "fault"
    /\ ArmExecuted(Entry)
    /\ \/ Field(Entry.instruction, 26, 2) = 3 /\ Field(Entry.instruction, 24, 4) # 15
       \/ Field(Entry.instruction, 25, 3) = 3 /\ Bit(Entry.instruction, 4) = 1
    => /\ status = "running"
       /\ registers[SPSR] = Entry.registers[CPSR]
       /\ get_cpsr_mode(registers[CPSR]) = ARM_MODE_UNDEFINED
       /\ Bit(registers[CPSR], 5) = 0
       /\ registers[LR] = Add(Entry.registers[PC], FromNat(4))
       /\ registers[PC] = FromNat(4)


\* (C19) A step that executes SWI (ARM bits 27..24 = 1111 with the
\* condition passing, or Thumb bits 15..8 = 11011111) leaves, at the entry
\* of the next step, SPSR = the CPSR on entry, mode = SUPERVISOR (0x13),
\* T clear, the IRQ-disable bit (bit 7) set, LR = the address of the
\* instruction after the SWI, and PC = 0x00000008.
C19_SoftwareInterrupt ==
    /\ Len(trace) > 0
    /\ status # "fault"
    /\ \/ ArmExecuted(Entry) /\ Field(Entry.instruction, 24, 4) = 15
       \/ Entry.thumb /\ Field(Entry.instruction, 8, 8) = 223
    => /\ status = "running"
       /\ registers[SPSR] = Entry.registers[CPSR]
       /\ get_cpsr_mode(registers[CPSR]) = ARM_MODE_SUPERVISOR
       /\ Bit(registers[CPSR], 5) = 0
       /\ Bit(registers[CPSR], 7) = 1
       /\ registers[LR] = Add(Entry.registers[PC], Width(Entry))
       /\ registers[PC] = FromNat(8)


\* (C20) No value of PC ends the run: cpu_run never returns because of
\* where PC points (a PC in 0x08000000-0x09FFFFFF, or PC = 0xFFFFFFFF),
\* so a run that is over was ended by an instruction that could not be
\* decoded.
C20_NoPCEndsRun == status \in {"done", "error"} => status = "error"


\* (C21) r13 and r14 are banked: when a SWI was executed in User mode,
\* every step since then began in another mode, and the last step has
\* brought the mode back to User, then r13 and r14 hold again the values
\* they held on entry to the SWI.
C21_BankedRegisters ==
    \A i \in 1..(Len(trace) - 1) :
        /\ Stepped
        /\ trace[i].thumb
        /\ Field(trace[i].instruction, 8, 8) = 223
        /\ get_cpsr_mode(trace[i].registers[CPSR]) = ARM_MODE_USER
        /\ \A j \in (i + 1)..Len(trace) :
               get_cpsr_mode(trace[j].registers[CPSR]) # ARM_MODE_USER
        /\ get_cpsr_mode(registers[CPSR]) = ARM_MODE_USER
        => /\ registers[SP] = trace[i].registers[SP]
           /\ registers[LR] = trace[i].registers[LR]


\* (C22) A Thumb instruction of group 000 or of group 010 has the effect
\* of that group's handler alone: the registers after the step are those
\* the handler leaves, with pc advanced by 2, and every byte the memory
\* held on entry is as that handler leaves it.
C22_ThumbSingleDispatch ==
    Stepped /\ Entry.thumb /\ Field(Entry.instruction, 13, 3) \in {0, 2} =>
        \E ub \in UBChoices :
            LET c == IF Field(Entry.instruction, 13, 3) = 0
                     THEN thumb_group_000(Machine(Entry.registers, Entry.memory),
                                          Entry.instruction, ub)
                     ELSE thumb_group_010(Machine(Entry.registers, Entry.memory),
                                          Entry.instruction, ub)
            IN /\ registers = [c.registers EXCEPT ![PC] = Add(@, FromNat(2))]
               /\ \A a \in DOMAIN Entry.memory : memory[a] = c.memory[a]


\* (C23) After an ARM data-processing instruction with S = 1 that writes
\* its result to Rd (Rd not r15), and after a Thumb MOV, ADD or SUB with
\* an 8-bit immediate, the N flag is bit 31 of the result left in Rd.
C23_NegativeIsBit31 ==
    /\ Stepped
    /\ \/ /\ IsArmDataProcessing(Entry)
          /\ Bit(Entry.instruction, 20) = 1
          /\ Field(Entry.instruction, 21, 4) \notin 8..11
          /\ Field(Entry.instruction, 12, 4) # PC
       \/ /\ Entry.thumb
          /\ Field(Entry.instruction, 13, 3) = 1
          /\ Field(Entry.instruction, 11, 2) # 1
    => get_cpsr_negative(registers[CPSR]) =
           Bit(registers[IF Entry.thumb THEN Field(Entry.instruction, 8, 3)
                         ELSE Field(Entry.instruction, 12, 4)], 31)


\* (C24) An ARM data-processing instruction with S = 0 and an opcode other
\* than TST, TEQ, CMP and CMN leaves N, Z, C and V as they were.
C24_FlagsKeptWithoutS ==
    /\ Stepped
    /\ IsArmDataProcessing(Entry)
    /\ Bit(Entry.instruction, 20) = 0
    /\ Field(Entry.instruction, 21, 4) \notin 8..11
    => Flags(registers) = Flags(Entry.registers)


\* (C25) ROR by n, 1 <= n <= 31, yields the source rotated right by n bits
\* and carry_out = bit n - 1 of the source: after ARM MOVS Rd, Rm, ROR #n
\* (Rd not r15) Rd holds Rm rotated right by n and C is bit n - 1 of Rm;
\* after Thumb ROR Rd, Rs with n the low byte of Rs, Rd holds its old
\* value rotated right by n and C is bit n - 1 of that old value.
C25_RotateRight ==
    /\ Stepped
    /\ \/ /\ IsFlagSettingShift(Entry)
          /\ Field(Entry.instruction, 21, 4) = 13
          /\ Bit(Entry.instruction, 25) = 0
          /\ Field(Entry.instruction, 5, 2) = 3
          /\ Field(Entry.instruction, 7, 5) \in 1..31
       \/ /\ Entry.thumb
          /\ Field(Entry.instruction, 6, 10) = 263
          /\ Field(Entry.registers[Field(Entry.instruction, 3, 3)], 0, 8) \in 1..31
    => LET n == IF Entry.thumb
                THEN Field(Entry.registers[Field(Entry.instruction, 3, 3)], 0, 8)
                ELSE Field(Entry.instruction, 7, 5)
           source == Entry.registers[IF Entry.thumb
                                     THEN Field(Entry.instruction, 0, 3)
                                     ELSE Field(Entry.instruction, 0, 4)]
           rd == IF Entry.thumb THEN Field(Entry.instruction, 0, 3)
                 ELSE Field(Entry.instruction, 12, 4)
       IN /\ registers[rd] = rotr32(source, n)
          /\ get_cpsr_carry(registers[CPSR]) = Bit(source, n - 1)


\* (C26) After MOV or MOVS Rd, Rm, <shift> Rs (Rd not r15) with the low
\* byte of Rs equal to 0, for each of LSL, LSR, ASR and ROR, Rd holds the
\* unshifted contents of Rm and the C flag is as it was.
C26_ShiftByRegisterZero ==
    /\ Stepped
    /\ ArmExecuted(Entry)
    /\ Field(Entry.instruction, 25, 3) = 0
    /\ Field(Entry.instruction, 21, 4) = 13
    /\ Bit(Entry.instruction, 4) = 1
    /\ Bit(Entry.instruction, 7) = 0
    /\ Field(Entry.instruction, 12, 4) # PC
    /\ Field(Entry.registers[Field(Entry.instruction, 8, 4)], 0, 8) = 0
    => /\ registers[Field(Entry.instruction, 12, 4)] =
              Entry.registers[Field(Entry.instruction, 0, 4)]
       /\ get_cpsr_carry(registers[CPSR]) = get_cpsr_carry(Entry.registers[CPSR])


\* (C27) In User mode (CPSR mode bits 10000) an ARM MSR to CPSR changes no
\* CPSR bit outside bits 31..24 -- the mode bits, the T bit and the I and F
\* bits keep their values -- whatever the value of the source register.
C27_UserModeMSR ==
    /\ Stepped
    /\ IsArmDataProcessing(Entry)
    /\ Field(Entry.instruction, 21, 4) = 9
    /\ Bit(Entry.instruction, 20) = 0
    /\ Bit(Entry.instruction, 22) = 0
    /\ Field(Entry.registers[CPSR], 0, 5) = 16
    => And(registers[CPSR], 0 .. 23) = And(Entry.registers[CPSR], 0 .. 23)

\* An MSR CPSR, r1 executed in User mode with r1 = 0xFFFFFFFF: the four
\* flags are taken from r1, the rest of CPSR is as before.
C27_UserModeMSRDone ==
    /\ Stepped
    /\ IsArmDataProcessing(Entry)
    /\ Field(Entry.instruction, 21, 4) = 9
    /\ Bit(Entry.instruction, 20) = 0
    /\ Bit(Entry.instruction, 22) = 0
    /\ Field(Entry.registers[CPSR], 0, 5) = 16
    /\ Entry.registers[Field(Entry.instruction, 0, 4)] = Ones32
    /\ registers[CPSR] = Or(And(Entry.registers[CPSR], 0 .. 27), 28 .. 31)


\* (C28) A read of r15 as an operand gives the address of the current
\* instruction plus 8 in ARM state and plus 4 in Thumb state: ADD Rd, r15,
\* #imm8 at address A leaves A + 8 + imm8 in Rd, and the Thumb load address
\* ADD Rd, PC, #imm8 * 4 at address A leaves ((A + 4) with bit 1 cleared)
\* + imm8 * 4 in Rd.
C28_PCReadsAhead ==
    Stepped
    => /\ (/\ IsArmDataProcessing(Entry)
           /\ Bit(Entry.instruction, 25) = 1
           /\ Field(Entry.instruction, 21, 4) = 4
           /\ Field(Entry.instruction, 8, 4) = 0
           /\ Field(Entry.instruction, 16, 4) = PC
           /\ Field(Entry.instruction, 12, 4) # PC)
          => registers[Field(Entry.instruction, 12, 4)]
                 = Add(Add(Entry.registers[PC], FromNat(8)),
                       FromNat(Field(Entry.instruction, 0, 8)))
       /\ (Entry.thumb /\ Field(Entry.instruction, 11, 5) = 20)
          => registers[Field(Entry.instruction, 8, 3)]
                 = Add(And(Add(Entry.registers[PC], FromNat(4)), 2 .. 31),
                       FromNat(4 * Field(Entry.instruction, 0, 8)))


\* (C29) A Thumb long branch with link at A (first half, H = 0) and A + 2
\* (second half, H = 1): the first half leaves LR = A + 4 + (offset_hi,
\* sign-extended from 11 bits, << 12); the second half leaves PC = that LR +
\* (offset_lo << 1) and LR = (A + 4) | 1, the address after the pair with
\* bit 0 set.
C29_LongBranchWithLink ==
    /\ Stepped
    /\ Len(trace) > 1
    /\ Before.thumb
    /\ Entry.thumb
    /\ Field(Before.instruction, 11, 5) = 30
    /\ Field(Entry.instruction, 11, 5) = 31
    /\ Entry.registers[PC] = Add(Before.registers[PC], FromNat(2))
    => /\ Entry.registers[LR]
              = Sub(Add(Add(Before.registers[PC], FromNat(4)),
                        Shl(FromNat(Field(Before.instruction, 0, 11)), 12)),
                    IF Bit(Before.instruction, 10) = 1
                    THEN {23} ELSE Zero32)
       /\ registers[PC]
              = Add(Entry.registers[LR],
                    Shl(FromNat(Field(Entry.instruction, 0, 11)), 1))
       /\ registers[LR]
              = Or(Add(Before.registers[PC], FromNat(4)), {0})


=============================================================================
